---- MODULE Spec2Model ----
(***************************************************************************)
(* Model of the deployer2 pipeline orchestrator (src/main.go, func main    *)
(* and func exit).  A run starts right after flag.Parse() returned; every  *)
(* external collaborator (manifest loader, build / docker / kubectl        *)
(* executors, tempfile library) is a call that returns nil or an error,    *)
(* chosen nondeterministically.  Strings are sequences of string tokens,   *)
(* so that "+" of the source is \o and strings.Split is computed.          *)
(***************************************************************************)
EXTENDS Integers, Sequences, FiniteSets, TLC

(* ------------------------------ bounds --------------------------------- *)
MaxWorkloads == 2
\* most remove-image calls that fail in one run
MaxRemoveFailures == 1

(* ------------------------------ strings -------------------------------- *)
Empty == << >>

RECURSIVE Split(_, _)
\* strings.Split(s, sep) for a one-token separator: always at least one part
Split(s, sep) ==
  IF \A i \in 1..Len(s) : s[i] # sep
  THEN << s >>
  ELSE LET k == CHOOSE i \in 1..Len(s) : s[i] = sep /\ \A j \in 1..(i-1) : s[j] # sep
       IN  << SubSeq(s, 1, k-1) >> \o Split(SubSeq(s, k+1, Len(s)), sep)

\* fmt.Sprintf("%d" + unit, n)
Sprintf(n, unit) == << ToString(n), unit >>

(* ------------------------------ inputs --------------------------------- *)
\* values of --image / --env ("" when the flag is absent)
Images == { Empty, <<"svc">> }
Envs == { Empty, <<"prod">> }
\* values of $JOB_NAME
JobNames == { Empty, <<"app", ".", "staging">>, <<"a", ".", "b", ".", "c">> }
\* values of $BUILD_NUMBER
BuildNumbers == { Empty, <<"42">> }

Workload(c, ns, t, n, ctr, init) ==
  [Cluster |-> c, Namespace |-> ns, Type |-> t, Name |-> n, Container |-> ctr, IsInit |-> init]

\* the workloads a --workload flag can name; two of them share a cluster
WorkloadPool ==
  { Workload(<<"c1">>, <<"ns1">>, <<"deployment">>, <<"web">>, <<"app">>, FALSE),
    Workload(<<"c2">>, <<"ns2">>, <<"statefulset">>, <<"db">>, <<"migrate">>, TRUE),
    Workload(<<"c1">>, <<"ns3">>, <<"deployment">>, <<"api">>, Empty, FALSE) }

RECURSIVE SeqsUpTo(_, _)
SeqsUpTo(S, n) ==
  IF n = 0 THEN { << >> }
  ELSE LET shorter == SeqsUpTo(S, n - 1)
       IN  shorter \cup { Append(q, x) : q \in { r \in shorter : Len(r) = n - 1 }, x \in S }

WorkloadLists == SeqsUpTo(WorkloadPool, MaxWorkloads)

Limit(min, max) == [Min |-> min, Max |-> max]
\* texts of --cpu / --mem: the flag absent, an explicit "0:0", a real override
CPUArgs == { Empty, <<"0", ":", "0">>, <<"50", ":", "150">> }
MEMArgs == { Empty, <<"0", ":", "0">>, <<"64", ":", "128">> }

\* largest number a limit flag carries here
MaxLimit == 150

\* strconv.Atoi on a number token
Atoi(tok) == CHOOSE n \in 0..MaxLimit : ToString(n) = tok

\* the LimitOption a flag text leaves behind: the zero value when the flag is
\* absent, else LimitOption.Set on "MIN:MAX"
ParseLimit(text) ==
  IF text = Empty THEN Limit(0, 0)
  ELSE LET parts == Split(text, ":")
       IN  Limit(Atoi(parts[1][1]), Atoi(parts[2][1]))

\* LimitOption.IsZero
IsZero(l) == l.Min = 0 /\ l.Max = 0

\* environment names that have a profile in the manifest file
Manifests == { { <<"prod">> }, { <<"staging">> } }

Preset(reg, rc, rm, lc, lm, secrets) ==
  [Registry |-> reg, RequestsCPU |-> rc, RequestsMEM |-> rm,
   LimitsCPU |-> lc, LimitsMEM |-> lm, ImagePullSecrets |-> secrets]

NoPreset == Preset(Empty, Empty, Empty, Empty, Empty, << >>)

\* LoadPreset(cluster) on success
PresetOf(cluster) ==
  IF cluster = <<"c1">>
  THEN Preset(<<"reg1.example.com">>, <<"100", "m">>, <<"256", "Mi">>,
              <<"200", "m">>, <<"512", "Mi">>, << <<" ", "pull1", " ">> >>)
  ELSE Preset(<<"reg2.example.com">>, <<"250", "m">>, <<"1024", "Mi">>,
              <<"500", "m">>, <<"2048", "Mi">>, << <<"pull2">>, <<"pull3">> >>)

(* --------------------------- image name ledger -------------------------- *)
\* ImageNames.Primary
Primary(names) == names[1]

\* ImageNames.Derive(registry)
Derive(names, registry) == [ i \in 1..Len(names) |-> registry \o <<"/">> \o names[i] ]

\* strings.TrimSpace on a token string
RECURSIVE TrimSpace(_)
TrimSpace(s) ==
  IF s = Empty THEN s
  ELSE IF Head(s) = " " THEN TrimSpace(Tail(s))
  ELSE IF s[Len(s)] = " " THEN TrimSpace(SubSeq(s, 1, Len(s) - 1))
  ELSE s

(* ------------------------------- patch --------------------------------- *)
EmptyPatch ==
  [Timestamp |-> Empty, ImagePullSecrets |-> << >>, Containers |-> << >>, InitContainers |-> << >>]

\* BuildPatchDoc, testing optCPU also where the memory override is decided
BuildPatchDoc_CPUDecidesAll(workload, preset, image, cpu, mem, now) ==
  LET secrets == [ i \in 1..Len(preset.ImagePullSecrets) |-> TrimSpace(preset.ImagePullSecrets[i]) ]
      initc == [Image |-> image, Name |-> workload.Container, ImagePullPolicy |-> <<"Always">>]
      res == [ReqCPU |-> IF IsZero(cpu) THEN preset.RequestsCPU ELSE Sprintf(cpu.Min, "m"),
              LimCPU |-> IF IsZero(cpu) THEN preset.LimitsCPU ELSE Sprintf(cpu.Max, "m"),
              ReqMEM |-> IF IsZero(cpu) THEN preset.RequestsMEM ELSE Sprintf(mem.Min, "Mi"),
              LimMEM |-> IF IsZero(cpu) THEN preset.LimitsMEM ELSE Sprintf(mem.Max, "Mi")]
      c == [Image |-> image, Name |-> workload.Container, ImagePullPolicy |-> <<"Always">>,
            Resources |-> res]
  IN  [Timestamp |-> now,
       ImagePullSecrets |-> secrets,
       Containers |-> IF workload.IsInit THEN << >> ELSE << c >>,
       InitContainers |-> IF workload.IsInit THEN << initc >> ELSE << >>]

\* BuildPatchDoc, appending the container entry for init workloads too
BuildPatchDoc_AlwaysContainer(workload, preset, image, cpu, mem, now) ==
  LET secrets == [ i \in 1..Len(preset.ImagePullSecrets) |-> TrimSpace(preset.ImagePullSecrets[i]) ]
      initc == [Image |-> image, Name |-> workload.Container, ImagePullPolicy |-> <<"Always">>]
      res == [ReqCPU |-> IF IsZero(cpu) THEN preset.RequestsCPU ELSE Sprintf(cpu.Min, "m"),
              LimCPU |-> IF IsZero(cpu) THEN preset.LimitsCPU ELSE Sprintf(cpu.Max, "m"),
              ReqMEM |-> IF IsZero(mem) THEN preset.RequestsMEM ELSE Sprintf(mem.Min, "Mi"),
              LimMEM |-> IF IsZero(mem) THEN preset.LimitsMEM ELSE Sprintf(mem.Max, "Mi")]
      c == [Image |-> image, Name |-> workload.Container, ImagePullPolicy |-> <<"Always">>,
            Resources |-> res]
  IN  [Timestamp |-> now,
       ImagePullSecrets |-> secrets,
       Containers |-> << c >>,
       InitContainers |-> IF workload.IsInit THEN << initc >> ELSE << >>]

\* the patch main builds for one workload
BuildPatchDoc(workload, preset, image, cpu, mem, now) ==
  LET secrets == [ i \in 1..Len(preset.ImagePullSecrets) |-> TrimSpace(preset.ImagePullSecrets[i]) ]
      initc == [Image |-> image, Name |-> workload.Container, ImagePullPolicy |-> <<"Always">>]
      res == [ReqCPU |-> IF IsZero(cpu) THEN preset.RequestsCPU ELSE Sprintf(cpu.Min, "m"),
              LimCPU |-> IF IsZero(cpu) THEN preset.LimitsCPU ELSE Sprintf(cpu.Max, "m"),
              ReqMEM |-> IF IsZero(mem) THEN preset.RequestsMEM ELSE Sprintf(mem.Min, "Mi"),
              LimMEM |-> IF IsZero(mem) THEN preset.LimitsMEM ELSE Sprintf(mem.Max, "Mi")]
      c == [Image |-> image, Name |-> workload.Container, ImagePullPolicy |-> <<"Always">>,
            Resources |-> res]
  IN  [Timestamp |-> now,
       ImagePullSecrets |-> secrets,
       Containers |-> IF workload.IsInit THEN << >> ELSE << c >>,
       InitContainers |-> IF workload.IsInit THEN << initc >> ELSE << >>]

(* ------------------------------- state --------------------------------- *)
VARIABLES
  pc,              \* position in main / in the deferred calls
  err,             \* var err error ("nil" or the error kind)
  defers,          \* stack of deferred calls, last registered on top
  optImage, optEnv, optWorkloads, optCPU, optMEM, optSkipDeploy,
  cpuArg, memArg,  \* the texts given to --cpu and --mem
  jobName, buildNumber,
  imageNames, usedImageNames,
  m, fileBuild, filePackage,
  wi,              \* position of the range loop over optWorkloads
  s, fullImageNames, dcDir,
  ti,              \* position of the range loop over fullImageNames
  fileKubeconfig, p, buf,
  ri,              \* position of the range loop of the image cleanup
  tempfiles,       \* files and directories the tempfile library holds
  tmpSeq,          \* number of temporary names handed out
  exitCode,        \* process exit status, -1 while running
  calls            \* trace of the stages and executor calls so far

opts == << optWorkloads, optCPU, optMEM, optSkipDeploy, cpuArg, memArg, jobName, buildNumber >>
params == << optImage, optEnv >>
ledger == << imageNames, usedImageNames >>
files == << m, fileBuild, filePackage >>
loopv == << wi, s, fullImageNames, dcDir, ti >>
patchv == << fileKubeconfig, p, buf >>
temps == << tempfiles, tmpSeq >>
vars == << pc, err, defers, opts, params, ledger, files, loopv, patchv, ri, temps, exitCode, calls >>

\* one entry of the trace: the operation, its arguments, its outcome, the
\* workload iteration it belongs to (0 outside the loop) and the patch sent
Call(op, args, ok) == [op |-> op, args |-> args, ok |-> ok, w |-> wi, body |-> EmptyPatch]

\* a fresh name of the tempfile library
TempName(prefix, n) == << "/tmp/", prefix, "-", ToString(n) >>

\* the deferred calls in the wrong order: exit registered last
DeferredAtStart_ExitLast == << "DeleteAll", "exit" >>

\* "defer exit(&err)" then "defer tempfile.DeleteAll()"
DeferredAtStart == << "exit", "DeleteAll" >>

\* the state when flag.Parse has returned, for the given sets of flag and
\* environment values
InitOf(images, envs, jobNames, buildNumbers, workloadLists, cpuArgs, memArgs, skips) ==
  /\ pc = "params"
  /\ err = "nil"
  /\ defers = DeferredAtStart
  /\ optImage \in images
  /\ optEnv \in envs
  /\ optWorkloads \in workloadLists
  /\ cpuArg \in cpuArgs
  /\ memArg \in memArgs
  /\ optCPU = ParseLimit(cpuArg)
  /\ optMEM = ParseLimit(memArg)
  /\ optSkipDeploy \in skips
  /\ jobName \in jobNames
  /\ buildNumber \in buildNumbers
  /\ imageNames = << >>
  /\ usedImageNames = << >>
  /\ m = {}
  /\ fileBuild = Empty
  /\ filePackage = Empty
  /\ wi = 0
  /\ s = NoPreset
  /\ fullImageNames = << >>
  /\ dcDir = Empty
  /\ ti = 0
  /\ fileKubeconfig = Empty
  /\ p = EmptyPatch
  /\ buf = EmptyPatch
  /\ ri = 0
  /\ tempfiles = {}
  /\ tmpSeq = 0
  /\ exitCode = -1
  /\ calls = << >>

\* runs of the whole pipeline: --image given, --env left to $JOB_NAME (set or
\* unset), any workload list, a CPU override and no memory override
Init ==
  InitOf({ <<"svc">> }, { Empty }, { Empty, <<"app", ".", "staging">> }, BuildNumbers,
         WorkloadLists, { <<"50", ":", "150">> }, { Empty }, BOOLEAN)

(* ------------------------------ pipeline ------------------------------- *)
\* the outcome of a stage: on error main records it and returns
Outcome(ok, kind, next) ==
  /\ err' = IF ok THEN "nil" ELSE kind
  /\ pc' = IF ok THEN next ELSE "return"

\* ResolveParams, taking both image and env from $JOB_NAME whenever one is absent
ResolveParams_TakeBoth ==
  /\ pc = "params"
  /\ LET jobNameSplits == Split(jobName, ".")
         need == optImage = Empty \/ optEnv = Empty
         ok == need => Len(jobNameSplits) = 2
     IN  /\ optImage' = IF need /\ ok THEN jobNameSplits[1] ELSE optImage
         /\ optEnv' = IF need /\ ok THEN jobNameSplits[2] ELSE optEnv
         /\ Outcome(ok, "MissingParameters", "tags")
         /\ calls' = Append(calls, Call("ResolveParams", << jobName, optImage, optEnv >>, ok))
  /\ UNCHANGED << defers, opts, ledger, files, loopv, patchv, ri, temps, exitCode >>

ResolveParams ==
  /\ pc = "params"
  /\ LET jobNameSplits == Split(jobName, ".")
         need == optImage = Empty \/ optEnv = Empty
         ok == need => Len(jobNameSplits) = 2
     IN  /\ optImage' = IF need /\ ok /\ optImage = Empty THEN jobNameSplits[1] ELSE optImage
         /\ optEnv' = IF need /\ ok /\ optEnv = Empty THEN jobNameSplits[2] ELSE optEnv
         /\ Outcome(ok, "MissingParameters", "tags")
         /\ calls' = Append(calls, Call("ResolveParams", << jobName, optImage, optEnv >>, ok))
  /\ UNCHANGED << defers, opts, ledger, files, loopv, patchv, ri, temps, exitCode >>

\* ComputeTags, appending the plain environment tag first
ComputeTags_PlainFirst ==
  /\ pc = "tags"
  /\ imageNames' =
       Append(imageNames, optImage \o <<":">> \o optEnv)
         \o (IF buildNumber # Empty
             THEN << optImage \o <<":">> \o optEnv \o <<"-build-">> \o buildNumber >>
             ELSE << >>)
  /\ pc' = "manifest"
  /\ UNCHANGED << err, defers, opts, params, usedImageNames, files, loopv, patchv, ri, temps,
                  exitCode, calls >>

ComputeTags ==
  /\ pc = "tags"
  /\ imageNames' =
       (IF buildNumber # Empty
        THEN Append(imageNames, optImage \o <<":">> \o optEnv \o <<"-build-">> \o buildNumber)
        ELSE imageNames) \o << optImage \o <<":">> \o optEnv >>
  /\ pc' = "manifest"
  /\ UNCHANGED << err, defers, opts, params, usedImageNames, files, loopv, patchv, ri, temps,
                  exitCode, calls >>

LoadManifest ==
  /\ pc = "manifest"
  /\ \E ok \in BOOLEAN, mf \in Manifests :
       /\ m' = IF ok THEN mf ELSE {}
       /\ Outcome(ok, "ManifestLoadError", "genfiles")
       /\ calls' = Append(calls, Call("LoadManifestFile", << >>, ok))
  /\ UNCHANGED << defers, opts, params, ledger, fileBuild, filePackage, loopv, patchv, ri,
                  temps, exitCode >>

\* Manifest.Profile(env) finds a profile
HasProfile(manifest, env) == env \in manifest

\* GenerateFiles, forgetting to return on error
GenerateFiles_IgnoreError ==
  /\ pc = "genfiles"
  /\ \E ok \in BOOLEAN, written \in 0..2 :
       LET fb == TempName("deployer-build", tmpSeq + 1)
           fp == TempName("deployer-package", tmpSeq + 2)
       IN  /\ ok => (HasProfile(m, optEnv) /\ written = 2)
           /\ ~ok => written < 2
           /\ ~HasProfile(m, optEnv) => written = 0
           /\ fileBuild' = IF ok THEN fb ELSE Empty
           /\ filePackage' = IF ok THEN fp ELSE Empty
           /\ tempfiles' = tempfiles \cup (IF written >= 1 THEN { fb } ELSE {})
                                     \cup (IF written >= 2 THEN { fp } ELSE {})
           /\ tmpSeq' = tmpSeq + written
           /\ err' = IF ok THEN "nil"
                     ELSE IF HasProfile(m, optEnv) THEN "TempResourceError"
                     ELSE "UnknownEnvironment"
           /\ pc' = "build"
           /\ calls' = Append(calls, Call("GenerateFiles", << optEnv >>, ok))
  /\ UNCHANGED << defers, opts, params, ledger, m, loopv, patchv, ri, exitCode >>

GenerateFiles ==
  /\ pc = "genfiles"
  /\ \E ok \in BOOLEAN, written \in 0..2 :
       LET fb == TempName("deployer-build", tmpSeq + 1)
           fp == TempName("deployer-package", tmpSeq + 2)
       IN  /\ ok => (HasProfile(m, optEnv) /\ written = 2)
           /\ ~ok => written < 2
           /\ ~HasProfile(m, optEnv) => written = 0
           /\ fileBuild' = IF ok THEN fb ELSE Empty
           /\ filePackage' = IF ok THEN fp ELSE Empty
           /\ tempfiles' = tempfiles \cup (IF written >= 1 THEN { fb } ELSE {})
                                     \cup (IF written >= 2 THEN { fp } ELSE {})
           /\ tmpSeq' = tmpSeq + written
           /\ Outcome(ok, IF HasProfile(m, optEnv) THEN "TempResourceError" ELSE "UnknownEnvironment",
                      "build")
           /\ calls' = Append(calls, Call("GenerateFiles", << optEnv >>, ok))
  /\ UNCHANGED << defers, opts, params, ledger, m, loopv, patchv, ri, exitCode >>

\* Build, forgetting to return on error
Build_IgnoreError ==
  /\ pc = "build"
  /\ \E ok \in BOOLEAN :
       /\ err' = IF ok THEN "nil" ELSE "BuildFailed"
       /\ pc' = "package"
       /\ calls' = Append(calls, Call("Execute", << fileBuild >>, ok))
  /\ UNCHANGED << defers, opts, params, ledger, files, loopv, patchv, ri, temps, exitCode >>

Build ==
  /\ pc = "build"
  /\ \E ok \in BOOLEAN :
       /\ Outcome(ok, "BuildFailed", "package")
       /\ calls' = Append(calls, Call("Execute", << fileBuild >>, ok))
  /\ UNCHANGED << defers, opts, params, ledger, files, loopv, patchv, ri, temps, exitCode >>

Package ==
  /\ pc = "package"
  /\ \E ok \in BOOLEAN :
       /\ Outcome(ok, "PackageFailed", "loop")
       /\ calls' = Append(calls, Call("ExecuteDockerBuild", << filePackage, Primary(imageNames) >>, ok))
       /\ usedImageNames' = IF ok THEN Append(usedImageNames, Primary(imageNames))
                            ELSE usedImageNames
       /\ defers' = IF ok THEN Append(defers, "cleanImages") ELSE defers
  /\ UNCHANGED << opts, params, imageNames, files, loopv, patchv, ri, temps, exitCode >>

(* --------------------------- per-workload loop -------------------------- *)
\* the workload of the current iteration
workload == optWorkloads[wi]

\* NextWorkload, starting the range at the second workload
NextWorkload_SkipFirst ==
  /\ pc = "loop"
  /\ IF wi < Len(optWorkloads)
     THEN /\ wi' = IF wi = 0 /\ Len(optWorkloads) > 1 THEN 2 ELSE wi + 1
          /\ pc' = "preset"
     ELSE /\ wi' = wi
          /\ pc' = "return"
  /\ UNCHANGED << err, defers, opts, params, ledger, files, s, fullImageNames, dcDir, ti,
                  patchv, ri, temps, exitCode, calls >>

\* head of "for _, workload := range optWorkloads": next workload, or fall off
\* the end of main
NextWorkload ==
  /\ pc = "loop"
  /\ IF wi < Len(optWorkloads)
     THEN /\ wi' = wi + 1
          /\ pc' = "preset"
     ELSE /\ wi' = wi
          /\ pc' = "return"
  /\ UNCHANGED << err, defers, opts, params, ledger, files, s, fullImageNames, dcDir, ti,
                  patchv, ri, temps, exitCode, calls >>

\* LoadPreset, reusing the preset of the previous workload of the same cluster
LoadPreset_Cached ==
  /\ pc = "preset"
  /\ IF wi > 1 /\ optWorkloads[wi - 1].Cluster = workload.Cluster
     THEN /\ pc' = "dockerconfig"
          /\ UNCHANGED << err, s, fullImageNames, calls >>
     ELSE \E ok \in BOOLEAN :
            /\ s' = IF ok THEN PresetOf(workload.Cluster) ELSE NoPreset
            /\ fullImageNames' = IF ok THEN Derive(imageNames, s'.Registry) ELSE fullImageNames
            /\ Outcome(ok, "UnknownCluster", "dockerconfig")
            /\ calls' = Append(calls, Call("LoadPreset", << workload.Cluster >>, ok))
  /\ UNCHANGED << defers, opts, params, ledger, files, wi, dcDir, ti, patchv, ri, temps,
                  exitCode >>

LoadPreset ==
  /\ pc = "preset"
  /\ \E ok \in BOOLEAN :
       /\ s' = IF ok THEN PresetOf(workload.Cluster) ELSE NoPreset
       /\ fullImageNames' = IF ok THEN Derive(imageNames, s'.Registry) ELSE fullImageNames
       /\ Outcome(ok, "UnknownCluster", "dockerconfig")
       /\ calls' = Append(calls, Call("LoadPreset", << workload.Cluster >>, ok))
  /\ UNCHANGED << defers, opts, params, ledger, files, wi, dcDir, ti, patchv, ri, temps,
                  exitCode >>

WriteDockerconfig ==
  /\ pc = "dockerconfig"
  /\ \E ok \in BOOLEAN :
       LET dir == TempName("deployer-dockerconfig", tmpSeq + 1)
       IN  /\ dcDir' = IF ok THEN dir ELSE Empty
           /\ tempfiles' = IF ok THEN tempfiles \cup { dir } ELSE tempfiles
           /\ tmpSeq' = IF ok THEN tmpSeq + 1 ELSE tmpSeq
           /\ ti' = IF ok THEN 1 ELSE ti
           /\ Outcome(ok, "TempResourceError", "tag")
           /\ calls' = Append(calls, Call("WriteDirFile", << <<"deployer-dockerconfig">> >>, ok))
  /\ UNCHANGED << defers, opts, params, ledger, files, wi, s, fullImageNames, patchv, ri,
                  exitCode >>

\* the image of the current iteration of "range fullImageNames"
fullImageName == fullImageNames[ti]

\* Tag, recording the tag before looking at the result of the tag operation
Tag_RecordAlways ==
  /\ pc = "tag"
  /\ \E ok \in BOOLEAN :
       /\ Outcome(ok, "PushFailed", "push")
       /\ calls' = Append(calls, Call("ExecuteDockerTag", << Primary(imageNames), fullImageName >>, ok))
       /\ usedImageNames' = Append(usedImageNames, fullImageName)
  /\ UNCHANGED << defers, opts, params, imageNames, files, loopv, patchv, ri, temps, exitCode >>

\* Tag, recording a tag only when it is not recorded yet
Tag_Dedup ==
  /\ pc = "tag"
  /\ \E ok \in BOOLEAN :
       /\ Outcome(ok, "PushFailed", "push")
       /\ calls' = Append(calls, Call("ExecuteDockerTag", << Primary(imageNames), fullImageName >>, ok))
       /\ usedImageNames' =
            IF ok /\ \A n \in 1..Len(usedImageNames) : usedImageNames[n] # fullImageName
            THEN Append(usedImageNames, fullImageName)
            ELSE usedImageNames
  /\ UNCHANGED << defers, opts, params, imageNames, files, loopv, patchv, ri, temps, exitCode >>

\* Tag, not recording the tag it created
Tag_NoRecord ==
  /\ pc = "tag"
  /\ \E ok \in BOOLEAN :
       /\ Outcome(ok, "PushFailed", "push")
       /\ calls' = Append(calls, Call("ExecuteDockerTag", << Primary(imageNames), fullImageName >>, ok))
  /\ UNCHANGED << defers, opts, params, ledger, files, loopv, patchv, ri, temps, exitCode >>

Tag ==
  /\ pc = "tag"
  /\ \E ok \in BOOLEAN :
       /\ Outcome(ok, "PushFailed", "push")
       /\ calls' = Append(calls, Call("ExecuteDockerTag", << Primary(imageNames), fullImageName >>, ok))
       /\ usedImageNames' = IF ok THEN Append(usedImageNames, fullImageName) ELSE usedImageNames
  /\ UNCHANGED << defers, opts, params, imageNames, files, loopv, patchv, ri, temps, exitCode >>

\* Push, always pushing the first derived tag
Push_PrimaryOnly ==
  /\ pc = "push"
  /\ \E ok \in BOOLEAN :
       /\ Outcome(ok, "PushFailed", IF ti < Len(fullImageNames) THEN "tag" ELSE "deploy")
       /\ calls' = Append(calls, Call("ExecuteDockerPush", << Primary(fullImageNames), dcDir >>, ok))
       /\ ti' = IF ok /\ ti < Len(fullImageNames) THEN ti + 1 ELSE ti
  /\ UNCHANGED << defers, opts, params, ledger, files, wi, s, fullImageNames, dcDir, patchv,
                  ri, temps, exitCode >>

Push ==
  /\ pc = "push"
  /\ \E ok \in BOOLEAN :
       /\ Outcome(ok, "PushFailed", IF ti < Len(fullImageNames) THEN "tag" ELSE "deploy")
       /\ calls' = Append(calls, Call("ExecuteDockerPush", << fullImageName, dcDir >>, ok))
       /\ ti' = IF ok /\ ti < Len(fullImageNames) THEN ti + 1 ELSE ti
  /\ UNCHANGED << defers, opts, params, ledger, files, wi, s, fullImageNames, dcDir, patchv,
                  ri, temps, exitCode >>

\* CheckSkipDeploy, leaving main instead of going on with the next workload
CheckSkipDeploy_Return ==
  /\ pc = "deploy"
  /\ pc' = IF optSkipDeploy THEN "return" ELSE "kubeconfig"
  /\ UNCHANGED << err, defers, opts, params, ledger, files, loopv, patchv, ri, temps,
                  exitCode, calls >>

\* "if optSkipDeploy { continue }"
CheckSkipDeploy ==
  /\ pc = "deploy"
  /\ pc' = IF optSkipDeploy THEN "loop" ELSE "kubeconfig"
  /\ UNCHANGED << err, defers, opts, params, ledger, files, loopv, patchv, ri, temps,
                  exitCode, calls >>

WriteKubeconfig ==
  /\ pc = "kubeconfig"
  /\ \E ok \in BOOLEAN :
       LET f == TempName("deployer-kubeconfig", tmpSeq + 1)
       IN  /\ fileKubeconfig' = IF ok THEN f ELSE Empty
           /\ tempfiles' = IF ok THEN tempfiles \cup { f } ELSE tempfiles
           /\ tmpSeq' = IF ok THEN tmpSeq + 1 ELSE tmpSeq
           /\ Outcome(ok, "TempResourceError", "patch")
           /\ calls' = Append(calls, Call("WriteFile", << <<"deployer-kubeconfig">> >>, ok))
  /\ UNCHANGED << defers, opts, params, ledger, files, loopv, p, buf, ri, exitCode >>

\* time.Now().Format(time.RFC3339): the time is the number of events so far
Now == << "T", ToString(Len(calls)) >>

\* BuildPatch, taking the image from the local ledger
BuildPatch_LocalImage ==
  /\ pc = "patch"
  /\ p' = BuildPatchDoc(workload, s, Primary(imageNames), optCPU, optMEM, Now)
  /\ \E ok \in BOOLEAN :
       /\ buf' = IF ok THEN p' ELSE EmptyPatch
       /\ Outcome(ok, "PatchFailed", "kubectl")
       /\ calls' = Append(calls, Call("Marshal", << >>, ok))
  /\ UNCHANGED << defers, opts, params, ledger, files, loopv, fileKubeconfig, ri, temps,
                  exitCode >>

\* build the patch and json.Marshal it
BuildPatch ==
  /\ pc = "patch"
  /\ p' = BuildPatchDoc(workload, s, Primary(fullImageNames), optCPU, optMEM, Now)
  /\ \E ok \in BOOLEAN :
       /\ buf' = IF ok THEN p' ELSE EmptyPatch
       /\ Outcome(ok, "PatchFailed", "kubectl")
       /\ calls' = Append(calls, Call("Marshal", << >>, ok))
  /\ UNCHANGED << defers, opts, params, ledger, files, loopv, fileKubeconfig, ri, temps,
                  exitCode >>

\* KubectlPatch, going on with the next workload after a failed patch
KubectlPatch_SkipWorkload ==
  /\ pc = "kubectl"
  /\ \E ok \in BOOLEAN :
       /\ err' = IF ok THEN "nil" ELSE "PatchFailed"
       /\ pc' = "loop"
       /\ calls' = Append(calls,
            [ Call("ExecuteKubectlPatch",
                   << fileKubeconfig, workload.Namespace, workload.Namespace, workload.Type >>,
                   ok) EXCEPT !.body = buf ])
  /\ UNCHANGED << defers, opts, params, ledger, files, loopv, patchv, ri, temps, exitCode >>

KubectlPatch ==
  /\ pc = "kubectl"
  /\ \E ok \in BOOLEAN :
       /\ Outcome(ok, "PatchFailed", "loop")
       /\ calls' = Append(calls,
            [ Call("ExecuteKubectlPatch",
                   << fileKubeconfig, workload.Namespace, workload.Namespace, workload.Type >>,
                   ok) EXCEPT !.body = buf ])
  /\ UNCHANGED << defers, opts, params, ledger, files, loopv, patchv, ri, temps, exitCode >>

(* --------------------------- deferred calls ---------------------------- *)
\* RunDeferred, running the deferred calls first registered first
RunDeferred_FIFO ==
  /\ pc = "return"
  /\ defers # << >>
  /\ pc' = Head(defers)
  /\ defers' = Tail(defers)
  /\ ri' = IF pc' = "cleanImages" THEN 1 ELSE ri
  /\ UNCHANGED << err, opts, params, ledger, files, loopv, patchv, temps, exitCode, calls >>

\* main returns: the deferred calls run, last registered first
RunDeferred ==
  /\ pc = "return"
  /\ defers # << >>
  /\ pc' = defers[Len(defers)]
  /\ defers' = SubSeq(defers, 1, Len(defers) - 1)
  /\ ri' = IF pc' = "cleanImages" THEN 1 ELSE ri
  /\ UNCHANGED << err, opts, params, ledger, files, loopv, patchv, temps, exitCode, calls >>

\* number of remove-image calls that failed so far
RemoveFailures(log) ==
  Cardinality({ i \in 1..Len(log) : log[i].op = "ExecuteDockerRemoveImage" /\ ~log[i].ok })

\* RemoveImage, keeping the error of the remove-image call
RemoveImage_Escalate ==
  /\ pc = "cleanImages"
  /\ ri <= Len(usedImageNames)
  /\ \E ok \in BOOLEAN :
       /\ ~ok => RemoveFailures(calls) < MaxRemoveFailures
       /\ err' = IF ok THEN err ELSE "RemoveFailed"
       /\ calls' = Append(calls, Call("ExecuteDockerRemoveImage", << usedImageNames[ri] >>, ok))
  /\ ri' = ri + 1
  /\ UNCHANGED << pc, defers, opts, params, ledger, files, loopv, patchv, temps, exitCode >>

\* one iteration of the deferred image cleanup; the result is discarded
RemoveImage ==
  /\ pc = "cleanImages"
  /\ ri <= Len(usedImageNames)
  /\ \E ok \in BOOLEAN :
       /\ ~ok => RemoveFailures(calls) < MaxRemoveFailures
       /\ calls' = Append(calls, Call("ExecuteDockerRemoveImage", << usedImageNames[ri] >>, ok))
  /\ ri' = ri + 1
  /\ UNCHANGED << pc, err, defers, opts, params, ledger, files, loopv, patchv, temps, exitCode >>

CleanImagesDone ==
  /\ pc = "cleanImages"
  /\ ri > Len(usedImageNames)
  /\ pc' = "return"
  /\ UNCHANGED << err, defers, opts, params, ledger, files, loopv, patchv, ri, temps,
                  exitCode, calls >>

\* tempfile.DeleteAll()
DeleteAll ==
  /\ pc = "DeleteAll"
  /\ tempfiles' = {}
  /\ calls' = Append(calls, Call("DeleteAll", << >>, TRUE))
  /\ pc' = "return"
  /\ UNCHANGED << err, defers, opts, params, ledger, files, loopv, patchv, ri, tmpSeq, exitCode >>

\* func exit(err *error): os.Exit(1) on error, else it returns to main's return
Exit ==
  /\ pc = "exit"
  /\ IF err # "nil"
     THEN /\ exitCode' = 1
          /\ pc' = "exited"
     ELSE /\ exitCode' = exitCode
          /\ pc' = "return"
  /\ UNCHANGED << err, defers, opts, params, ledger, files, loopv, patchv, ri, temps, calls >>

\* main returned and no deferred call is left: the process ends with status 0
MainReturn ==
  /\ pc = "return"
  /\ defers = << >>
  /\ exitCode' = 0
  /\ pc' = "exited"
  /\ UNCHANGED << err, defers, opts, params, ledger, files, loopv, patchv, ri, temps, calls >>

Next ==
  \/ ResolveParams
  \/ ComputeTags
  \/ LoadManifest
  \/ GenerateFiles
  \/ Build
  \/ Package
  \/ NextWorkload
  \/ LoadPreset
  \/ WriteDockerconfig
  \/ Tag
  \/ Push
  \/ CheckSkipDeploy
  \/ WriteKubeconfig
  \/ BuildPatch
  \/ KubectlPatch
  \/ RunDeferred
  \/ RemoveImage
  \/ CleanImagesDone
  \/ DeleteAll
  \/ Exit
  \/ MainReturn

Spec == Init /\ [][Next]_vars

\* runs that patch one workload, under every text of --cpu and of --mem
InitPatch ==
  InitOf({ <<"svc">> }, { Empty }, { <<"app", ".", "staging">> }, { <<"42">> },
         { << w >> : w \in WorkloadPool }, CPUArgs, MEMArgs, { FALSE })

SpecPatch == InitPatch /\ [][Next]_vars

\* runs over every combination of --image, --env, $JOB_NAME and $BUILD_NUMBER
InitParams ==
  InitOf(Images, Envs, JobNames, BuildNumbers, { << w >> : w \in WorkloadPool },
         { <<"50", ":", "150">> }, { Empty }, { FALSE })

SpecParams == InitParams /\ [][Next]_vars

TypeOK ==
  /\ pc \in { "params", "tags", "manifest", "genfiles", "build", "package", "loop", "preset",
              "dockerconfig", "tag", "push", "deploy", "kubeconfig", "patch", "kubectl",
              "return", "cleanImages", "DeleteAll", "exit", "exited" }
  /\ wi \in 0..Len(optWorkloads)
  /\ exitCode \in { -1, 0, 1 }

(* ------------------------- reading the trace --------------------------- *)
StageOps ==
  { "ResolveParams", "LoadManifestFile", "GenerateFiles", "Execute", "ExecuteDockerBuild",
    "LoadPreset", "WriteDirFile", "ExecuteDockerTag", "ExecuteDockerPush", "WriteFile",
    "Marshal", "ExecuteKubectlPatch" }
CleanupOps == { "ExecuteDockerRemoveImage", "DeleteAll" }
LoopOps ==
  { "LoadPreset", "WriteDirFile", "ExecuteDockerTag", "ExecuteDockerPush", "WriteFile",
    "Marshal", "ExecuteKubectlPatch" }

Is(i, op) == calls[i].op = op
Ok(i, op) == calls[i].op = op /\ calls[i].ok
Failed(i, op) == calls[i].op = op /\ ~calls[i].ok
\* entry i comes after a successful op / after one of the same workload
After(i, op) == \E j \in 1..(i - 1) : Ok(j, op)
AfterW(i, op) == \E j \in 1..(i - 1) : Ok(j, op) /\ calls[j].w = calls[i].w
Entries(op) == { i \in 1..Len(calls) : Is(i, op) }
EntriesW(op, k) == { i \in 1..Len(calls) : Is(i, op) /\ calls[i].w = k }
OkEntriesW(op, k) == { i \in 1..Len(calls) : Ok(i, op) /\ calls[i].w = k }
StageFailed == \E i \in 1..Len(calls) : calls[i].op \in StageOps /\ ~calls[i].ok

(* ------------------------------- claims -------------------------------- *)

\* C1: the stages happen only in the order manifest load, file generation,
\* build, package, then per workload preset load, tag and push, patch: no
\* stage is invoked before the stage ahead of it succeeded.
C1_StageOrder ==
  \A i \in 1..Len(calls) :
    /\ Is(i, "GenerateFiles") => After(i, "LoadManifestFile")
    /\ Is(i, "Execute") => After(i, "LoadManifestFile") /\ After(i, "GenerateFiles")
    /\ Is(i, "ExecuteDockerBuild") => After(i, "Execute")
    /\ calls[i].op \in { "LoadPreset", "ExecuteDockerTag", "ExecuteDockerPush",
                         "ExecuteKubectlPatch" } => After(i, "ExecuteDockerBuild")
    /\ calls[i].op \in { "ExecuteDockerTag", "ExecuteDockerPush", "ExecuteKubectlPatch" }
         => AfterW(i, "LoadPreset")
    /\ Is(i, "ExecuteDockerPush") => AfterW(i, "ExecuteDockerTag")
    /\ Is(i, "ExecuteKubectlPatch") => AfterW(i, "ExecuteDockerPush")

\* a whole run that patched its second workload
C1_Witness ==
  /\ pc = "exited"
  /\ \E i \in 1..Len(calls) : Ok(i, "ExecuteKubectlPatch") /\ calls[i].w = 2

\* C2: once a stage has failed no further stage of the pipeline is performed,
\* for the current workload or a later one; only cleanup follows.
C2_FailFast ==
  \A i \in 1..Len(calls) :
    (calls[i].op \in StageOps /\ ~calls[i].ok)
      => /\ \A j \in (i + 1)..Len(calls) : calls[j].op \in CleanupOps
         /\ pc \in { "return", "cleanImages", "DeleteAll", "exit", "exited" }

\* the push of the first of two workloads failed and the run went on to exit
C2_Witness ==
  /\ pc = "exited"
  /\ Len(optWorkloads) = 2
  /\ \E i \in 1..Len(calls) : Failed(i, "ExecuteDockerPush") /\ calls[i].w = 1 /\ i < Len(calls)

\* C3: at exit a remove-image call was issued for every image tag created in
\* the run: the primary tag of a successful package step and the target of
\* every successful tag step, whatever happened afterwards.
C3_ImageCleanup ==
  pc = "exited" =>
    \A i \in 1..Len(calls) :
      (Ok(i, "ExecuteDockerBuild") \/ Ok(i, "ExecuteDockerTag"))
        => \E j \in (i + 1)..Len(calls) :
             Is(j, "ExecuteDockerRemoveImage") /\ calls[j].args[1] = calls[i].args[2]

\* the second workload's push failed; its tag and the first workload's tags
\* were created before
C3_Witness ==
  /\ pc = "exited"
  /\ \E i \in 1..Len(calls) : Failed(i, "ExecuteDockerPush") /\ calls[i].w = 2
  /\ \E i \in 1..Len(calls) : Ok(i, "ExecuteDockerPush") /\ calls[i].w = 1

\* C4: DeleteAll runs exactly once in every run, after the last temporary
\* file was created and after the last stage, before the exit status.
C4_TempCleanup ==
  /\ Cardinality(Entries("DeleteAll")) <= 1
  /\ \A i \in Entries("DeleteAll") : \A j \in (i + 1)..Len(calls) : calls[j].op \notin StageOps
  /\ Entries("DeleteAll") # {} => tempfiles = {}
  /\ exitCode # -1 => Cardinality(Entries("DeleteAll")) = 1

\* a failed run that had created the build and package files, a dockerconfig
\* directory and a kubeconfig file
C4_Witness ==
  /\ pc = "exited"
  /\ exitCode = 1
  /\ tmpSeq = 4
  /\ tempfiles = {}

\* C4 on the missing-parameters path
C4_WitnessParams ==
  /\ pc = "exited"
  /\ err = "MissingParameters"
  /\ Entries("DeleteAll") # {}

\* the exit status tells whether a stage failed, and every recorded tag got
\* its remove-image call
ExitStatusOK ==
  /\ (err # "nil") <=> StageFailed
  /\ exitCode # -1 => (exitCode = (IF StageFailed THEN 1 ELSE 0))
  /\ (exitCode # -1 /\ \E i \in 1..Len(calls) : Ok(i, "ExecuteDockerBuild"))
       => Cardinality(Entries("ExecuteDockerRemoveImage"))
            = 1 + Cardinality({ i \in 1..Len(calls) : Ok(i, "ExecuteDockerTag") })

\* C5: the exit status is 1 iff a stage failed and 0 otherwise; a failing
\* remove-image call changes neither the status nor the recorded error and
\* does not stop the remaining remove-image calls.
C5_ExitStatus == [](ExitStatusOK) /\ [][pc = "cleanImages" => err' = err]_vars

\* a successful run in which a remove-image call failed and another followed
C5_Witness ==
  /\ pc = "exited"
  /\ exitCode = 0
  /\ \E i \in 1..Len(calls) : Failed(i, "ExecuteDockerRemoveImage") /\ i + 1 < Len(calls)

\* every derived tag of workload k was pushed
PushesAllOk(k) ==
  /\ imageNames # << >>
  /\ Cardinality(OkEntriesW("ExecuteDockerPush", k)) = Len(imageNames)
\* workload k went through preset load, tag and push of every derived tag
PushStagesRan(k) ==
  /\ Cardinality(OkEntriesW("LoadPreset", k)) = 1
  /\ Cardinality(OkEntriesW("ExecuteDockerTag", k)) = Len(imageNames)
  /\ PushesAllOk(k)

\* C6 as stated: with --skip-deploy the push stages run for every workload
\* and nothing is patched; without it every workload whose pushes all
\* succeeded gets exactly one patch call.
C6_Original ==
  pc = "exited" =>
    /\ optSkipDeploy =>
         /\ Entries("WriteFile") = {} /\ Entries("ExecuteKubectlPatch") = {}
         /\ exitCode = 0 => \A k \in 1..Len(optWorkloads) : PushStagesRan(k)
    /\ ~optSkipDeploy =>
         \A k \in 1..Len(optWorkloads) :
           PushesAllOk(k) => Cardinality(EntriesW("ExecuteKubectlPatch", k)) = 1

\* C6 (amended): with --skip-deploy the push stages run for every workload
\* the loop gets through, and no kubeconfig is written and no patch call is
\* issued; without it a workload gets exactly one patch call when its pushes,
\* its kubeconfig write and the marshalling of its patch all succeeded, and
\* none otherwise.
C6_SkipDeploy ==
  /\ optSkipDeploy =>
       /\ Entries("WriteFile") = {} /\ Entries("Marshal") = {}
       /\ Entries("ExecuteKubectlPatch") = {}
       /\ pc = "loop" => \A k \in 1..wi : PushStagesRan(k)
       /\ (pc = "exited" /\ exitCode = 0) => \A k \in 1..Len(optWorkloads) : PushStagesRan(k)
  /\ (~optSkipDeploy /\ pc = "exited") =>
       \A k \in 1..Len(optWorkloads) :
         Cardinality(EntriesW("ExecuteKubectlPatch", k))
           = IF /\ PushesAllOk(k)
                /\ OkEntriesW("WriteFile", k) # {}
                /\ OkEntriesW("Marshal", k) # {}
             THEN 1 ELSE 0

\* two workloads pushed under --skip-deploy
C6_Witness ==
  /\ pc = "exited"
  /\ optSkipDeploy
  /\ Len(optWorkloads) = 2
  /\ PushStagesRan(1) /\ PushStagesRan(2)

\* without --skip-deploy: pushes done, kubeconfig write failed, no patch call
C6_WitnessNoPatch ==
  /\ pc = "exited"
  /\ ~optSkipDeploy
  /\ \E i \in 1..Len(calls) : Failed(i, "WriteFile") /\ PushesAllOk(calls[i].w)

\* C7: workloads are processed one at a time in command-line order; each
\* operation of a workload precedes every operation of the next one, and in
\* a successful run no workload is processed twice or skipped.
C7_WorkloadOrder ==
  /\ \A i \in 1..Len(calls) :
       calls[i].op \in LoopOps =>
         /\ calls[i].w \in 1..Len(optWorkloads)
         /\ \A j \in (i + 1)..Len(calls) : calls[j].op \in LoopOps => calls[i].w <= calls[j].w
         /\ Is(i, "LoadPreset") => calls[i].args[1] = optWorkloads[calls[i].w].Cluster
  /\ \A k \in 1..Len(optWorkloads) : Cardinality(EntriesW("LoadPreset", k)) <= 1
  /\ (pc = "exited" /\ exitCode = 0) =>
       \A k \in 1..Len(optWorkloads) : Cardinality(OkEntriesW("LoadPreset", k)) = 1

\* a successful run over two different workloads, both patched
C7_Witness ==
  /\ pc = "exited"
  /\ exitCode = 0
  /\ Len(optWorkloads) = 2
  /\ optWorkloads[1] # optWorkloads[2]
  /\ OkEntriesW("ExecuteKubectlPatch", 1) # {}
  /\ OkEntriesW("ExecuteKubectlPatch", 2) # {}

\* s ends with t
EndsWith(str, t) == Len(t) <= Len(str) /\ SubSeq(str, Len(str) - Len(t) + 1, Len(str)) = t

\* C8: the tag of a derived tag immediately precedes the push of that same
\* tag, a push is issued only for the tag just created, and the derived tags
\* are taken in ledger order, the one derived from the primary first.
C8_TagThenPush ==
  \A i \in 1..Len(calls) :
    /\ Is(i, "ExecuteDockerPush") =>
         /\ i > 1
         /\ Ok(i - 1, "ExecuteDockerTag")
         /\ calls[i - 1].args[2] = calls[i].args[1]
         /\ calls[i - 1].w = calls[i].w
    /\ (Ok(i, "ExecuteDockerTag") /\ i < Len(calls)) => Is(i + 1, "ExecuteDockerPush")
    /\ Is(i, "ExecuteDockerTag") =>
         LET k == Cardinality({ j \in 1..i : Is(j, "ExecuteDockerTag") /\ calls[j].w = calls[i].w })
         IN  /\ k <= Len(imageNames)
             /\ calls[i].args[1] = Primary(imageNames)
             /\ EndsWith(calls[i].args[2], <<"/">> \o imageNames[k])

\* the second derived tag of a workload was tagged and pushed
C8_Witness ==
  \E i \in 3..Len(calls) :
    /\ Ok(i, "ExecuteDockerPush")
    /\ Is(i - 2, "ExecuteDockerPush")
    /\ calls[i - 2].w = calls[i].w

\* C9 as stated: a patch call is addressed to the namespace, the name and
\* the kind of its workload.
C9_PatchAddress ==
  \A i \in 1..Len(calls) :
    Is(i, "ExecuteKubectlPatch") =>
      /\ calls[i].args[2] = optWorkloads[calls[i].w].Namespace
      /\ calls[i].args[3] = optWorkloads[calls[i].w].Name
      /\ calls[i].args[4] = optWorkloads[calls[i].w].Type

\* C10 as stated: no cluster has its preset loaded twice in a run.
C10_Original ==
  \A i, j \in Entries("LoadPreset") : calls[i].args[1] = calls[j].args[1] => i = j

\* C10 (amended): the preset is loaded once per workload, for the cluster of
\* that workload, also when an earlier workload named the same cluster.
C10_PresetPerWorkload ==
  \A k \in 1..Len(optWorkloads) :
    /\ Cardinality(EntriesW("LoadPreset", k)) = (IF k < wi \/ (k = wi /\ pc # "preset") THEN 1 ELSE 0)
    /\ \A i \in EntriesW("LoadPreset", k) : calls[i].args[1] = optWorkloads[k].Cluster

\* two workloads of one cluster, the preset loaded for each
C10_Witness ==
  \E i, j \in Entries("LoadPreset") :
    i < j /\ calls[i].ok /\ calls[j].ok /\ calls[i].args[1] = calls[j].args[1]

\* a limit flag that overrides: its option is not the zero value
Overrides(l) == l.Min # 0 \/ l.Max # 0
\* the patch of the current workload has just been built and marshalled
PatchBuilt == pc = "kubectl"

\* C11: in the patch of a non-init workload each dimension is decided on its
\* own: with a non-zero --cpu the CPU request and limit are "<min>m" and
\* "<max>m", else the preset's CPU defaults; likewise --mem with "Mi"; neither
\* flag touches the other dimension.
C11_ResourcePrecedence ==
  (PatchBuilt /\ ~workload.IsInit) =>
    LET r == p.Containers[1].Resources
    IN  /\ r.ReqCPU = (IF Overrides(optCPU) THEN << cpuArg[1], "m" >> ELSE s.RequestsCPU)
        /\ r.LimCPU = (IF Overrides(optCPU) THEN << cpuArg[3], "m" >> ELSE s.LimitsCPU)
        /\ r.ReqMEM = (IF Overrides(optMEM) THEN << memArg[1], "Mi" >> ELSE s.RequestsMEM)
        /\ r.LimMEM = (IF Overrides(optMEM) THEN << memArg[3], "Mi" >> ELSE s.LimitsMEM)

\* --cpu 50:150 without --mem: CPU replaced, memory at the preset's defaults
C11_Witness ==
  /\ PatchBuilt /\ ~workload.IsInit
  /\ cpuArg = <<"50", ":", "150">> /\ memArg = Empty
  /\ p.Containers[1].Resources.ReqCPU = <<"50", "m">>
  /\ p.Containers[1].Resources.LimMEM = s.LimitsMEM

\* the other three combinations of the two flags
C11_WitnessMemOnly == PatchBuilt /\ ~workload.IsInit /\ cpuArg = Empty /\ Overrides(optMEM)
C11_WitnessBoth == PatchBuilt /\ ~workload.IsInit /\ Overrides(optCPU) /\ Overrides(optMEM)
C11_WitnessNone == PatchBuilt /\ ~workload.IsInit /\ cpuArg = Empty /\ memArg = Empty

\* C12: a patch carries exactly one entry, in exactly one of containers and
\* initContainers: an init workload gets one init-container entry without
\* resources, whatever the presets and overrides, any other workload one
\* container entry with resources; the entry is named after the workload's
\* container and pulls Always.
C12_PatchShape ==
  PatchBuilt =>
    /\ Len(p.Containers) + Len(p.InitContainers) = 1
    /\ workload.IsInit =>
         /\ Len(p.InitContainers) = 1
         /\ DOMAIN p.InitContainers[1] = { "Image", "Name", "ImagePullPolicy" }
         /\ p.InitContainers[1].Name = workload.Container
         /\ p.InitContainers[1].ImagePullPolicy = <<"Always">>
    /\ ~workload.IsInit =>
         /\ Len(p.Containers) = 1
         /\ "Resources" \in DOMAIN p.Containers[1]
         /\ p.Containers[1].Name = workload.Container
         /\ p.Containers[1].ImagePullPolicy = <<"Always">>
    /\ buf = p

\* the patch of an init workload, built under both overrides
C12_Witness ==
  /\ PatchBuilt /\ workload.IsInit
  /\ Overrides(optCPU) /\ Overrides(optMEM)
  /\ Len(p.InitContainers) = 1

\* the values --image and --env had on the command line
FlagImage == calls[1].args[2]
FlagEnv == calls[1].args[3]
\* parameter resolution is over
Resolved == calls # << >>
\* the run stopped at parameter resolution: nothing but the final DeleteAll
OnlyParamsFailed ==
  /\ ~calls[1].ok
  /\ err = "MissingParameters"
  /\ \A i \in 2..Len(calls) : Is(i, "DeleteAll")
  /\ imageNames = << >> /\ usedImageNames = << >>
  /\ exitCode \in { -1, 1 }
  /\ pc = "exited" => exitCode = 1

\* C13 as stated: when --image or --env is absent both are taken from the
\* two parts of $JOB_NAME, and the run fails with the missing-parameters
\* error when $JOB_NAME has not exactly two parts.
C13_Original ==
  (Resolved /\ (FlagImage = Empty \/ FlagEnv = Empty)) =>
    LET parts == Split(jobName, ".")
    IN  IF Len(parts) = 2
        THEN calls[1].ok /\ optImage = parts[1] /\ optEnv = parts[2]
        ELSE OnlyParamsFailed

\* C13 (amended): when --image or --env is absent, each absent one is taken
\* from $JOB_NAME split on "." into exactly two parts (image the first, env
\* the second) and a flag that was given keeps its value; when $JOB_NAME has
\* not exactly two parts the run fails with the missing-parameters error and
\* status 1, and nothing but the temporary-file cleanup is done.
C13_ParamFallback ==
  Resolved =>
    LET parts == Split(jobName, ".")
    IN  IF FlagImage # Empty /\ FlagEnv # Empty
        THEN calls[1].ok /\ optImage = FlagImage /\ optEnv = FlagEnv
        ELSE IF Len(parts) = 2
        THEN /\ calls[1].ok
             /\ optImage = (IF FlagImage = Empty THEN parts[1] ELSE FlagImage)
             /\ optEnv = (IF FlagEnv = Empty THEN parts[2] ELSE FlagEnv)
        ELSE OnlyParamsFailed

\* --image given, --env absent, JOB_NAME=app.staging: env from the job name
C13_Witness ==
  /\ Resolved
  /\ FlagImage = <<"svc">> /\ FlagEnv = Empty
  /\ jobName = <<"app", ".", "staging">>
  /\ optImage = <<"svc">> /\ optEnv = <<"staging">>

\* a job name of three parts: the run ended with status 1
C13_WitnessFailed ==
  /\ pc = "exited" /\ exitCode = 1
  /\ FlagImage = Empty
  /\ Len(Split(jobName, ".")) = 3

C15_SentinelDistinct ==
  (PatchBuilt /\ ~workload.IsInit) =>
    LET r == p.Containers[1].Resources
    IN  /\ cpuArg = <<"0", ":", "0">> => << r.ReqCPU, r.LimCPU >> # << s.RequestsCPU, s.LimitsCPU >>
        /\ memArg = <<"0", ":", "0">> => << r.ReqMEM, r.LimMEM >> # << s.RequestsMEM, s.LimitsMEM >>

\* the plain environment tag "<image>:<env>"
PlainTag == optImage \o <<":">> \o optEnv
\* the ledger has its entries: the build-numbered tag, if any, then the plain one
LedgerOK ==
  /\ Len(imageNames) = (IF buildNumber # Empty THEN 2 ELSE 1)
  /\ imageNames[Len(imageNames)] = PlainTag
  /\ buildNumber # Empty => imageNames[1] = PlainTag \o <<"-build-">> \o buildNumber
  /\ Primary(imageNames) = imageNames[1]
\* main is at a statement that takes the primary tag or derives the ledger
LedgerTaken == pc \in { "package", "preset", "tag", "patch" }
LedgerComputed == Resolved /\ calls[1].ok /\ pc \notin { "params", "tags" }

\* C16: the ledger is non-empty wherever its primary or a derivation is
\* taken: two entries, "<image>:<env>-build-<id>" then "<image>:<env>", with a
\* non-empty BUILD_NUMBER and the single entry "<image>:<env>" without, the
\* primary being the first; once computed it is never modified.
C16_Ledger ==
  /\ [](LedgerTaken => imageNames # << >>)
  /\ [](LedgerComputed => LedgerOK)
  /\ [][pc # "tags" => imageNames' = imageNames]_vars

\* a tag is about to be taken from a ledger of two entries
C16_Witness ==
  /\ pc = "tag"
  /\ buildNumber # Empty
  /\ Len(imageNames) = 2
  /\ FlagImage = Empty /\ FlagEnv # Empty

\* the image a patch refers to
PatchImage(doc) ==
  IF doc.Containers # << >> THEN doc.Containers[1].Image ELSE doc.InitContainers[1].Image
\* the registry of the preset of the cluster of workload k
RegistryOf(k) == PresetOf(optWorkloads[k].Cluster).Registry

\* C17: the image of a workload's patch is the primary of the list derived
\* for the registry of that workload's own cluster, and the patch call comes
\* only after every derived tag of that list, this image included, was
\* tagged and pushed for that workload.
C17_PatchImage ==
  \A i \in 1..Len(calls) :
    Is(i, "ExecuteKubectlPatch") =>
      LET k == calls[i].w
          image == PatchImage(calls[i].body)
          pushed == { j \in 1..(i - 1) : Ok(j, "ExecuteDockerPush") /\ calls[j].w = k }
      IN  /\ image = RegistryOf(k) \o <<"/">> \o Primary(imageNames)
          /\ Cardinality(pushed) = Len(imageNames)
          /\ \A n \in 1..Len(imageNames) :
               \E j \in pushed :
                 /\ calls[j].args[1] = RegistryOf(k) \o <<"/">> \o imageNames[n]
                 /\ Ok(j - 1, "ExecuteDockerTag")
          /\ \E j \in pushed : calls[j].args[1] = image

\* the second workload, of another registry than the first, was patched
C17_Witness ==
  \E i \in 1..Len(calls) :
    /\ Ok(i, "ExecuteKubectlPatch")
    /\ calls[i].w = 2
    /\ RegistryOf(1) # RegistryOf(2)
    /\ Len(imageNames) = 2

RECURSIVE Created(_)
\* the tags created by the first n entries of the trace, in order: the primary
\* of a successful package step, the target of every successful tag step
Created(n) ==
  IF n = 0 THEN << >>
  ELSE Created(n - 1) \o
       (IF Ok(n, "ExecuteDockerBuild") \/ Ok(n, "ExecuteDockerTag")
        THEN << calls[n].args[2] >> ELSE << >>)

RECURSIVE Removed(_)
\* the tags of the remove-image calls among the first n entries, in order
Removed(n) ==
  IF n = 0 THEN << >>
  ELSE Removed(n - 1) \o
       (IF Is(n, "ExecuteDockerRemoveImage") THEN << calls[n].args[1] >> ELSE << >>)

IsPrefix(a, b) == Len(a) <= Len(b) /\ SubSeq(b, 1, Len(a)) = a
PackageOk == \E i \in 1..Len(calls) : Ok(i, "ExecuteDockerBuild")

\* usedImageNames holds the tags created so far, in order
UsedOK ==
  /\ usedImageNames = Created(Len(calls))
  /\ ~PackageOk => usedImageNames = << >>
  /\ PackageOk => Primary(usedImageNames) = Primary(imageNames)
  /\ \A i \in 1..Len(calls) :
       Is(i, "ExecuteDockerPush") => \E n \in 2..Len(usedImageNames) : usedImageNames[n] = calls[i].args[1]

\* C18: usedImageNames is append-only; it is empty until the package step
\* succeeds and afterwards the primary tag followed, in order, by the target
\* of every tag operation that succeeded so far, recorded before its push is
\* attempted and not recorded when the tag operation fails.
C18_UsedImageTags ==
  [](UsedOK) /\ [][IsPrefix(usedImageNames, usedImageNames')]_vars

\* a tag failed for the second workload: recorded are the primary and the
\* tags of the first workload, whose last push is in the record as well
C18_Witness ==
  /\ \E i \in 1..Len(calls) : Failed(i, "ExecuteDockerTag") /\ calls[i].w = 2
  /\ Len(usedImageNames) = 1 + Len(imageNames)
  /\ Len(imageNames) = 2

\* a push failed: its tag is the last one recorded
C18_WitnessPushFailed ==
  \E i \in 1..Len(calls) :
    Failed(i, "ExecuteDockerPush") /\ usedImageNames[Len(usedImageNames)] = calls[i].args[1]

\* C19: after a successful package step the remove-image calls, one per entry
\* of usedImageNames in recording order, all come before the temporary files
\* are deleted, and that deletion before the exit status; without a
\* successful package step there is no remove-image call.
C19_CleanupOrder ==
  /\ IsPrefix(Removed(Len(calls)), usedImageNames)
  /\ \A i \in Entries("ExecuteDockerRemoveImage") :
       /\ PackageOk
       /\ \A j \in Entries("DeleteAll") : i < j
  /\ Entries("DeleteAll") # {} => Removed(Len(calls)) = usedImageNames
  /\ exitCode # -1 => Entries("DeleteAll") # {}
  /\ ~PackageOk => Entries("ExecuteDockerRemoveImage") = {}

\* a failed run that removed the primary and two derived tags before exit
C19_Witness ==
  /\ pc = "exited"
  /\ exitCode = 1
  /\ Len(usedImageNames) = 3
  /\ Removed(Len(calls)) = usedImageNames

\* a run that failed before the package step succeeded
C19_WitnessEarly ==
  /\ pc = "exited"
  /\ \E i \in 1..Len(calls) : Failed(i, "ExecuteDockerBuild")

\* C20: a successful run over W workloads with T ledger entries made W*T tag
\* and W*T push operations, recorded 1 + W*T tags and issued 1 + W*T
\* remove-image calls; tags are not de-duplicated.
C20_Counts ==
  (pc = "exited" /\ exitCode = 0) =>
    LET n == Len(optWorkloads) * Len(imageNames)
    IN  /\ Len(imageNames) \in { 1, 2 }
        /\ Cardinality(Entries("ExecuteDockerTag")) = n
        /\ Cardinality(Entries("ExecuteDockerPush")) = n
        /\ Len(usedImageNames) = 1 + n
        /\ Cardinality(Entries("ExecuteDockerRemoveImage")) = 1 + n
        /\ \A k \in 1..Len(optWorkloads) :
             /\ Cardinality(OkEntriesW("ExecuteDockerTag", k)) = Len(imageNames)
             /\ Cardinality(OkEntriesW("ExecuteDockerPush", k)) = Len(imageNames)

\* a successful run over two workloads of one registry: five tags recorded
\* and removed, two of them twice
C20_Witness ==
  /\ pc = "exited" /\ exitCode = 0
  /\ Len(optWorkloads) = 2
  /\ RegistryOf(1) = RegistryOf(2)
  /\ Len(usedImageNames) = 5
  /\ usedImageNames[2] = usedImageNames[4]
  /\ Cardinality(Entries("ExecuteDockerRemoveImage")) = 5

====
